---- MODULE Spec2Model ----
(***************************************************************************)
(* A model of Bag_to_CSV.py: the rosbag reader (extract_topics), the       *)
(* attribute flattener (extract_message_attributes), the CSV writer        *)
(* (convert_to_csv), one job (process_bag_file) and the pool that runs     *)
(* the jobs (process_bag_files, __main__).                                 *)
(*                                                                         *)
(* Three specifications share the module:                                  *)
(*   FlattenSpec  extract_message_attributes applied to bounded messages   *)
(*   Spec         process_bag_file on one bag file, record by record       *)
(*   PoolSpec     process_bag_files and __main__ over several jobs         *)
(*                                                                         *)
(* Strings the code builds (dotted keys, csv file names) are sequences of  *)
(* tokens, so that joining and replacing are computed, not assumed.        *)
(***************************************************************************)
EXTENDS Integers, Sequences, FiniteSets, TLC

VARIABLES
    \* FlattenSpec
    fmsg,        \* the message handed to extract_message_attributes
    fpc,         \* "call" | "returned"
    fresult,     \* the returned dict
    \* Spec (one job)
    pc,          \* position in process_bag_file
    bagState,    \* the rosbag.Bag object: "unopened" | "open" | "closed"
    genState,    \* the extract_topics generator
    bag,         \* the records stored in the bag file, in stored order
    nread,       \* how many of them bag.read_messages() has produced
    yielded,     \* records the generator has yielded so far
    outcome,     \* per yielded record: how convert_to_csv's loop body ended
    files,       \* csv file name -> lines on disk
    initial,     \* the files as they were when the job started
    log,         \* what was printed
    \* PoolSpec
    mainPc,      \* position in __main__ / process_bag_files
    cpu,         \* psutil.cpu_count()
    nfiles,      \* len(bag_files)
    target,      \* target_processes
    job,         \* bag file -> where its process_bag_file call stands
    plog         \* what the processes printed (the order across processes is not kept)

fvars == <<fmsg, fpc, fresult>>
jvars == <<pc, bagState, genState, bag, nread, yielded, outcome, files,
           initial, log>>
pvars == <<mainPc, cpu, nfiles, target, job, plog>>
vars == <<fvars, jvars, pvars>>

----------------------------------------------------------------------------
(* Bounds *)

MaxNodes == 5      \* fields (at all levels together) of a message in FlattenSpec
MaxRecords == 3    \* records stored in the bag of Spec
MaxCpu == 4        \* psutil.cpu_count() ranges over 1..MaxCpu in PoolSpec
MaxJobs == 5       \* bag files found in PoolSpec

----------------------------------------------------------------------------
(* Messages: a message is the sequence of its __slots__ with their values *)

FieldNames == {"x", "y"}
ScalarVals == {1}

Scalar(v) == [kind |-> "scalar", val |-> v, fields |-> <<>>]
Nested(m) == [kind |-> "msg", val |-> 0, fields |-> m]
Field(n, v) == [name |-> n, value |-> v]

\* hasattr(value, '__slots__')
HasSlots(v) == v.kind = "msg"

\* MsgsBySize[n]: the messages with exactly n fields, the nested ones
\* counted; sibling slots have distinct names. A value takes c fields of the
\* budget: a scalar or an empty nested message (c = 1), or a nested message
\* with c - 1 fields of its own
MsgsBySize[n \in 0..MaxNodes] ==
    LET ValuesOfCost(c) ==
            IF c = 1
            THEN {Scalar(v) : v \in ScalarVals} \cup {Nested(<<>>)}
            ELSE {Nested(m) : m \in MsgsBySize[c - 1]}
    IN  IF n = 0
        THEN {<<>>}
        ELSE {<<Field(f, v)>> : f \in FieldNames, v \in ValuesOfCost(n)}
             \cup UNION {
                 {<<Field(p[1], v1), Field(p[2], v2)>> :
                      p \in {q \in FieldNames \X FieldNames : q[1] # q[2]},
                      v1 \in ValuesOfCost(i), v2 \in ValuesOfCost(n - i)}
                 : i \in 1..(n - 1)}

FlattenInputs == UNION {MsgsBySize[n] : n \in 0..MaxNodes}

----------------------------------------------------------------------------
(* Python dict: insertion-ordered, a sequence of key/value entries *)

Entry(k, v) == [key |-> k, val |-> v]

Keys(d) == [i \in 1..Len(d) |-> d[i].key]

HasKey(d, k) == \E i \in 1..Len(d) : d[i].key = k

\* d[k] = v : an existing key keeps its position
DictSet(d, k, v) ==
    IF HasKey(d, k)
    THEN [i \in 1..Len(d) |-> IF d[i].key = k THEN Entry(k, v) ELSE d[i]]
    ELSE Append(d, Entry(k, v))

RECURSIVE DictUpdate(_, _)
\* d.update(e)
DictUpdate(d, e) ==
    IF e = <<>> THEN d
    ELSE DictUpdate(DictSet(d, Head(e).key, Head(e).val), Tail(e))

\* d[k]
DictGet(d, k) == d[CHOOSE i \in 1..Len(d) : d[i].key = k].val

----------------------------------------------------------------------------
(* extract_message_attributes *)

\* the slot's own name, whatever the parent
FullFieldName_NoParent(parent_field, field) == <<field>>

\* f"{parent_field}.{field}" if parent_field else field
\* (None and the empty string are both the empty sequence)
FullFieldName(parent_field, field) ==
    IF parent_field # <<>> THEN parent_field \o <<".">> \o <<field>> ELSE <<field>>

RECURSIVE extract_message_attributes(_, _), ExtractLoop(_, _, _, _)
\* the for loop over message.__slots__, from slot i on, attributes so far
ExtractLoop(message, parent_field, i, attributes) ==
    IF i > Len(message)
    THEN attributes
    ELSE LET field == message[i].name
             value == message[i].value
             full_field_name == FullFieldName(parent_field, field)
         IN  ExtractLoop(message, parent_field, i + 1,
                 IF HasSlots(value)
                 THEN DictUpdate(attributes,
                          extract_message_attributes(value.fields, full_field_name))
                 ELSE DictSet(attributes, full_field_name, value.val))

extract_message_attributes(message, parent_field) ==
    ExtractLoop(message, parent_field, 1, <<>>)

----------------------------------------------------------------------------
(* FlattenSpec: extract_message_attributes(message) on every bounded message *)

FlattenInit ==
    /\ fmsg \in FlattenInputs
    /\ fpc = "call"
    /\ fresult = <<>>

FlattenCall ==
    /\ fpc = "call"
    /\ fresult' = extract_message_attributes(fmsg, <<>>)
    /\ fpc' = "returned"
    /\ UNCHANGED fmsg

----------------------------------------------------------------------------
(* Topics, records and csv files of one job *)

Topics == {<<"/", "a">>, <<"/", "a", "/", "b">>, <<"/", "a", "_", "b">>}

M_xy == <<Field("x", Scalar(1)), Field("y", Scalar(2))>>
M_yx == <<Field("y", Scalar(2)), Field("x", Scalar(1))>>
M_px == <<Field("p", Nested(<<Field("x", Scalar(3))>>))>>

Record(t, m) == [topic |-> t, msg |-> m]

\* what a bag may hold: one topic whose message layout changes, and two
\* more topics
Records ==
    {Record(<<"/", "a">>, M_xy), Record(<<"/", "a">>, M_yx),
     Record(<<"/", "a", "/", "b">>, M_xy), Record(<<"/", "a", "_", "b">>, M_px)}

RECURSIVE SeqsUpTo(_, _)
SeqsUpTo(S, n) ==
    IF n = 0 THEN {<<>>}
    ELSE SeqsUpTo(S, n - 1)
         \cup {Append(q, e) : q \in {r \in SeqsUpTo(S, n - 1) : Len(r) = n - 1}, e \in S}

\* t.to_sec(): records are stamped in stored order
Timestamp(i) == i

\* topic.replace('/', '_')
Replace(str, old, new) == [i \in 1..Len(str) |-> IF str[i] = old THEN new ELSE str[i]]

\* f"{topic.replace('/', '_')}.csv" inside the job's output folder
CsvPath(topic) == Replace(topic, "/", "_") \o <<".csv">>

CsvFiles == {CsvPath(t) : t \in Topics}

TimestampKey == <<"Timestamp">>

\* a line of a csv file; src is the position in the stream of the record
\* that wrote it (0: written before this job)
HeaderLine(cells, src) == [kind |-> "header", cells |-> cells, src |-> src]
DataLine(cells, src) == [kind |-> "data", cells |-> cells, src |-> src]

\* a table left by an earlier run over the same bag file
PriorTable ==
    <<HeaderLine(<<TimestampKey, <<"x">>, <<"y">>>>, 0), DataLine(<<1, 1, 2>>, 0)>>

\* the output folder is new or empty, or holds one table of an earlier run
InitialFiles ==
    {[f \in CsvFiles |-> <<>>]}
    \cup {[f \in CsvFiles |-> IF f = g THEN PriorTable ELSE <<>>] : g \in CsvFiles}

\* fieldnames=['Timestamp'] + list(extract_message_attributes(message).keys())
Fieldnames(message) == <<TimestampKey>> \o Keys(extract_message_attributes(message, <<>>))

\* attributes = extract_message_attributes(message); attributes['Timestamp'] = timestamp
Attributes(message, timestamp) ==
    DictSet(extract_message_attributes(message, <<>>), TimestampKey, timestamp)

\* DictWriter.writerow: the dict's values in the order of the writer's fieldnames
RowCells(fieldnames, attributes) ==
    [k \in 1..Len(fieldnames) |-> DictGet(attributes, fieldnames[k])]

\* csv_file.tell() == 0 on a file just opened for appending
IsEmpty(lines) == Len(lines) = 0

LogEntry(what, topic, rec) == [what |-> what, topic |-> topic, rec |-> rec]

----------------------------------------------------------------------------
(* Spec: process_bag_file on one bag file *)

\* where the loop body of convert_to_csv can raise
Faults == {"none", "open", "flatten", "writeheader", "writerow"}

JobInit ==
    /\ pc = "makedirs"
    /\ bagState = "unopened"
    /\ genState = "created"
    /\ bag \in SeqsUpTo(Records, MaxRecords)
    /\ nread = 0
    /\ yielded = <<>>
    /\ outcome = <<>>
    /\ initial \in InitialFiles
    /\ files = initial
    /\ log = <<>>

\* os.makedirs(output_folder, exist_ok=True), and the except OSError around it
MakeDirs ==
    /\ pc = "makedirs"
    /\ \/ /\ pc' = "next"
          /\ UNCHANGED log
       \/ /\ pc' = "oserror"
          /\ log' = Append(log, LogEntry("job_error", <<>>, 0))
    /\ UNCHANGED <<bagState, genState, bag, nread, yielded, outcome, files, initial>>

\* the generator runs to its next yield; the first call opens the bag
GenYield ==
    /\ pc = "next"
    /\ nread < Len(bag)
    /\ bagState' = "open"
    /\ genState' = "suspended"
    /\ nread' = nread + 1
    /\ yielded' = Append(yielded, [topic |-> bag[nread + 1].topic,
                                   ts |-> Timestamp(nread + 1),
                                   msg |-> bag[nread + 1].msg])
    /\ pc' = "body"
    /\ UNCHANGED <<bag, outcome, files, initial, log>>

\* read_messages() is exhausted: bag.close(), the generator returns, the
\* for loop of convert_to_csv ends
GenExhausted ==
    /\ pc = "next"
    /\ nread = Len(bag)
    /\ bagState' = "closed"
    /\ genState' = "exhausted"
    /\ pc' = "finish"
    /\ UNCHANGED <<bag, nread, yielded, outcome, files, initial, log>>

\* rosbag.Bag(...) or read_messages() raises ROSBagException: the except
\* clause prints and the generator returns
GenBagError ==
    /\ pc = "next"
    /\ \/ /\ genState = "created"          \* raised by rosbag.Bag(rosbag_file)
          /\ bagState' = "unopened"
       \/ bagState' = "open"               \* raised while reading
    /\ genState' = "failed"
    /\ log' = Append(log, LogEntry("bag_error", <<>>, 0))
    /\ pc' = "finish"
    /\ UNCHANGED <<bag, nread, yielded, outcome, files, initial>>

\* anything else raised in the generator leaves it, leaves the for loop of
\* convert_to_csv (which is outside its try) and reaches process_bag_file,
\* whose except clause takes OSError only
GenOtherError ==
    /\ pc = "next"
    /\ \/ /\ genState = "created"
          /\ bagState' = "unopened"
       \/ bagState' = "open"
    /\ genState' = "raised"
    /\ \/ /\ pc' = "oserror"
          /\ log' = Append(log, LogEntry("job_error", <<>>, 0))
       \/ /\ pc' = "raised"
          /\ UNCHANGED log
    /\ UNCHANGED <<bag, nread, yielded, outcome, files, initial>>

\* writer.writeheader() on every append
WriteHeaderAlways(lines, fieldnames, src) == Append(lines, HeaderLine(fieldnames, src))

\* if csv_file.tell() == 0: writer.writeheader()
WriteHeaderIfEmpty(lines, fieldnames, src) ==
    IF IsEmpty(lines) THEN Append(lines, HeaderLine(fieldnames, src)) ELSE lines

\* the body of the for loop of convert_to_csv on the record just yielded;
\* afterError is where control goes from the except clause
ConvertRecord(afterError) ==
    /\ pc = "body"
    /\ LET i == Len(yielded)
           rec == yielded[i]
           csv_file_path == CsvPath(rec.topic)
           old == files[csv_file_path]
           fieldnames == Fieldnames(rec.msg)
           headed == WriteHeaderIfEmpty(old, fieldnames, i)
           row == DataLine(RowCells(fieldnames, Attributes(rec.msg, rec.ts)), i)
       IN  \E fault \in Faults :
             /\ fault = "writeheader" => IsEmpty(old)
             /\ files' = [files EXCEPT ![csv_file_path] =
                             CASE fault = "none" -> Append(headed, row)
                               [] fault = "writerow" -> headed
                               [] OTHER -> old]
             /\ outcome' = Append(outcome, IF fault = "none" THEN "written" ELSE "skipped")
             /\ log' = IF fault = "none" THEN log
                       ELSE Append(log, LogEntry("record_error", rec.topic, i))
             /\ pc' = IF fault = "none" THEN "next" ELSE afterError
    /\ UNCHANGED <<bagState, genState, bag, nread, yielded, initial>>

\* a try around the whole for loop: the except clause ends the loop
ConvertBody_TryAroundLoop == ConvertRecord("finish")

\* the try is inside the for loop: after the except clause the loop goes on
ConvertBody == ConvertRecord("next")

\* convert_to_csv has returned: print "Processed ... in ... seconds"
Finish ==
    /\ pc = "finish"
    /\ log' = Append(log, LogEntry("processed", <<>>, 0))
    /\ pc' = "done"
    /\ UNCHANGED <<bagState, genState, bag, nread, yielded, outcome, files, initial>>

\* a Bag that was never closed is closed when the garbage collector gets to
\* it, at a time the language does not fix
Finalize ==
    /\ bagState = "open"
    /\ genState \in {"failed", "raised"}
    /\ bagState' = "closed"
    /\ UNCHANGED <<pc, genState, bag, nread, yielded, outcome, files, initial, log>>

----------------------------------------------------------------------------
(* PoolSpec: process_bag_files and __main__ *)

Jobs == 1..nfiles

\* int(cpu_count * 0.8): 0.8 is stored a little above 4/5, so the product
\* is never below the exact one and truncation gives floor(8c / 10)
TargetProcesses(c) == (c * 8) \div 10

\* Pool.map cuts the list into chunks of ceil(n / (4 * processes)) jobs; a
\* worker runs the jobs of a chunk one after the other
ChunkSize == (nfiles + 4 * target - 1) \div (4 * target)
ChunkOf(j) == (j - 1) \div ChunkSize
SameChunk(j, k) == ChunkOf(j) = ChunkOf(k)

\* the ways process_bag_file ends: it returns after printing "Processed",
\* it returns after its except OSError clause, or an exception leaves it
JobEnds == {"done", "caught", "raised"}

Ended(j) == job[j] \in JobEnds \cup {"skipped"}

\* a chunk occupies a worker from the start of its first job until its
\* last job has ended
Occupied(c) ==
    /\ \E j \in Jobs : ChunkOf(j) = c /\ job[j] # "pending"
    /\ \E j \in Jobs : ChunkOf(j) = c /\ ~Ended(j)

BusyWorkers == Cardinality({ChunkOf(j) : j \in {k \in Jobs : Occupied(ChunkOf(k))}})

PoolInit ==
    /\ mainPc = "start"
    /\ cpu \in 1..MaxCpu
    /\ nfiles \in 0..MaxJobs
    /\ target = 0
    /\ job = [j \in 1..nfiles |-> "pending"]
    /\ plog = {}

\* bag_files = list(...); cpu_count = psutil.cpu_count();
\* target_processes = int(cpu_count * 0.8)
ComputeTarget ==
    /\ mainPc = "start"
    /\ target' = TargetProcesses(cpu)
    /\ mainPc' = "pool"
    /\ UNCHANGED <<cpu, nfiles, job, plog>>

\* multiprocessing.Pool(processes=target_processes) raises ValueError
\* when processes < 1; nothing in the program catches it
CreatePool ==
    /\ mainPc = "pool"
    /\ mainPc' = IF target < 1 THEN "crashed" ELSE "map"
    /\ UNCHANGED <<cpu, nfiles, target, job, plog>>

\* a worker starts process_bag_file on the next job of a chunk
StartJob(j) ==
    /\ mainPc = "map"
    /\ job[j] = "pending"
    /\ \A k \in Jobs : (SameChunk(j, k) /\ k < j) => job[k] \in {"done", "caught"}
    /\ Occupied(ChunkOf(j)) \/ BusyWorkers < target
    /\ job' = [job EXCEPT ![j] = "running"]
    /\ UNCHANGED <<mainPc, cpu, nfiles, target, plog>>

\* process_bag_file ends; an exception that leaves it ends the worker's
\* chunk, whose remaining jobs are never run
FinishJob(j) ==
    /\ job[j] = "running"
    /\ \E end \in JobEnds :
         /\ job' = [k \in Jobs |->
                       IF k = j THEN end
                       ELSE IF end = "raised" /\ SameChunk(j, k) /\ k > j THEN "skipped"
                       ELSE job[k]]
         /\ plog' = CASE end = "done" -> plog \cup {[what |-> "processed", file |-> j]}
                      [] end = "caught" -> plog \cup {[what |-> "job_error", file |-> j]}
                      [] OTHER -> plog
    /\ UNCHANGED <<mainPc, cpu, nfiles, target>>

\* pool.map returns when every chunk has ended, and raises in the caller
\* the exception of a job that raised; nothing in the program catches it
MapReturns ==
    /\ mainPc = "map"
    /\ \A j \in Jobs : Ended(j)
    /\ mainPc' = IF \E j \in Jobs : job[j] = "raised" THEN "crashed" ELSE "close"
    /\ UNCHANGED <<cpu, nfiles, target, job, plog>>

\* pool.close()
ClosePool ==
    /\ mainPc = "close"
    /\ mainPc' = "join"
    /\ UNCHANGED <<cpu, nfiles, target, job, plog>>

\* pool.join() returns when the workers have exited
JoinPool ==
    /\ mainPc = "join"
    /\ \A j \in Jobs : job[j] # "running"
    /\ mainPc' = "joined"
    /\ UNCHANGED <<cpu, nfiles, target, job, plog>>

\* print('Done converting') with nothing waiting for the jobs before it
\* (map_async in place of map, and no join)
PrintDone_NoWait ==
    /\ mainPc = "map"
    /\ mainPc' = "reported"
    /\ plog' = plog \cup {[what |-> "done_converting", file |-> 0]}
    /\ UNCHANGED <<cpu, nfiles, target, job>>

\* print('Done converting')
PrintDone ==
    /\ mainPc = "joined"
    /\ mainPc' = "reported"
    /\ plog' = plog \cup {[what |-> "done_converting", file |-> 0]}
    /\ UNCHANGED <<cpu, nfiles, target, job>>

----------------------------------------------------------------------------
(* The three specifications *)

FlattenIdle == fmsg = <<>> /\ fpc = "idle" /\ fresult = <<>>

JobIdle ==
    /\ pc = "idle" /\ bagState = "unopened" /\ genState = "created"
    /\ bag = <<>> /\ nread = 0 /\ yielded = <<>> /\ outcome = <<>>
    /\ initial = [f \in CsvFiles |-> <<>>] /\ files = initial /\ log = <<>>

PoolIdle ==
    /\ mainPc = "idle" /\ cpu = 1 /\ nfiles = 0 /\ target = 0
    /\ job = <<>> /\ plog = {}

Init == FlattenIdle /\ JobInit /\ PoolIdle

Next ==
    \/ MakeDirs /\ UNCHANGED <<fvars, pvars>>
    \/ GenYield /\ UNCHANGED <<fvars, pvars>>
    \/ GenExhausted /\ UNCHANGED <<fvars, pvars>>
    \/ GenBagError /\ UNCHANGED <<fvars, pvars>>
    \/ GenOtherError /\ UNCHANGED <<fvars, pvars>>
    \/ ConvertBody /\ UNCHANGED <<fvars, pvars>>
    \/ Finish /\ UNCHANGED <<fvars, pvars>>
    \/ Finalize /\ UNCHANGED <<fvars, pvars>>

Spec == Init /\ [][Next]_vars

FlattenNext == FlattenCall /\ UNCHANGED <<jvars, pvars>>

FlattenSpecInit == FlattenInit /\ JobIdle /\ PoolIdle

FlattenSpec == FlattenSpecInit /\ [][FlattenNext]_vars

PoolNext ==
    \/ ComputeTarget /\ UNCHANGED <<fvars, jvars>>
    \/ CreatePool /\ UNCHANGED <<fvars, jvars>>
    \/ (\E j \in Jobs : StartJob(j)) /\ UNCHANGED <<fvars, jvars>>
    \/ (\E j \in Jobs : FinishJob(j)) /\ UNCHANGED <<fvars, jvars>>
    \/ MapReturns /\ UNCHANGED <<fvars, jvars>>
    \/ ClosePool /\ UNCHANGED <<fvars, jvars>>
    \/ JoinPool /\ UNCHANGED <<fvars, jvars>>
    \/ PrintDone /\ UNCHANGED <<fvars, jvars>>

PoolSpecInit == FlattenIdle /\ JobIdle /\ PoolInit

PoolSpec == PoolSpecInit /\ [][PoolNext]_vars

----------------------------------------------------------------------------
(* The path reference of flattening *)

RECURSIVE LeafPaths(_)
\* the scalar leaves of a message in declaration (depth-first) order, each
\* with the field names on the way from the root
LeafPaths(m) ==
    IF m = <<>> THEN <<>>
    ELSE LET f == Head(m)
             below == LeafPaths(f.value.fields)
             here == IF f.value.kind = "scalar"
                     THEN <<[path |-> <<f.name>>, val |-> f.value.val]>>
                     ELSE [i \in 1..Len(below) |->
                              [path |-> <<f.name>> \o below[i].path, val |-> below[i].val]]
         IN  here \o LeafPaths(Tail(m))

RECURSIVE DotJoin(_)
\* the names of a path joined by dots
DotJoin(path) ==
    IF Len(path) = 1 THEN path ELSE <<Head(path), ".">> \o DotJoin(Tail(path))

PathReference(m) ==
    [i \in 1..Len(LeafPaths(m)) |->
        Entry(DotJoin(LeafPaths(m)[i].path), LeafPaths(m)[i].val)]

RECURSIVE Depth(_)
\* levels of nesting below the top-level message
Depth(m) ==
    IF \A i \in 1..Len(m) : m[i].value.kind = "scalar" THEN 0
    ELSE 1 + CHOOSE d \in 0..MaxNodes :
                 /\ \E i \in 1..Len(m) : m[i].value.kind = "msg" /\ Depth(m[i].value.fields) = d
                 /\ \A i \in 1..Len(m) : m[i].value.kind = "msg" => Depth(m[i].value.fields) <= d

HasEmptyNested(m) == \E i \in 1..Len(m) : m[i].value = Nested(<<>>)

\* C9: extract_message_attributes returns, for every message tree, the
\* dict whose entries are exactly the scalar leaves in declaration
\* (depth-first) order, each under the dot-joined path of field names from
\* the root and with the leaf's value unchanged; no key occurs twice, and an
\* empty nested message contributes no entry.
C9_FlattenIsPathReference ==
    fpc = "returned" =>
        /\ fresult = PathReference(fmsg)
        /\ \A i, j \in 1..Len(fresult) : fresult[i].key = fresult[j].key => i = j
        /\ fmsg \in {<<Field(n, Nested(<<>>))>> : n \in FieldNames} => fresult = <<>>

\* a message whose top level holds an empty nested message and a chain
\* nested three levels deep has been flattened to a single key of four
\* dotted names
C9_Witness ==
    /\ fpc = "returned"
    /\ Depth(fmsg) >= 3
    /\ HasEmptyNested(fmsg)
    /\ Len(fresult) = 1
    /\ Len(fresult[1].key) = 7

----------------------------------------------------------------------------
(* Properties of one job *)

\* the lines this job has appended to file f
NewLineIdx(f) == (Len(initial[f]) + 1)..Len(files[f])

\* records of topic t whose loop body ended with the row written
WrittenOf(t) == {i \in 1..Len(outcome) : outcome[i] = "written" /\ yielded[i].topic = t}

\* records whose row went to file f
WrittenTo(f) ==
    {i \in 1..Len(outcome) : outcome[i] = "written" /\ CsvPath(yielded[i].topic) = f}

\* the data lines of record i, in any file
RowsOf(i) ==
    UNION {{<<f, k>> : k \in {l \in NewLineIdx(f) :
                                 files[f][l].kind = "data" /\ files[f][l].src = i}}
           : f \in CsvFiles}

\* the errors printed for record i
ErrorsOf(i) == {k \in 1..Len(log) : log[k].what = "record_error" /\ log[k].rec = i}

\* C1: a table that was empty when the job started and has received n >= 1
\* written records of a topic is one header line followed by data lines only,
\* n of them of that topic (and as many data lines in all as records were
\* written to it); a table that held lines before only grows by data lines.
C1_HeaderOnce ==
    \A f \in CsvFiles :
        /\ Len(files[f]) >= Len(initial[f])
        /\ SubSeq(files[f], 1, Len(initial[f])) = initial[f]
        /\ initial[f] # <<>> =>
               /\ \A k \in NewLineIdx(f) : files[f][k].kind = "data"
               /\ Len(files[f]) - Len(initial[f]) = Cardinality(WrittenTo(f))
        /\ initial[f] = <<>> =>
               \A t \in Topics :
                   (CsvPath(t) = f /\ WrittenOf(t) # {}) =>
                       /\ files[f][1].kind = "header"
                       /\ \A k \in 2..Len(files[f]) : files[f][k].kind = "data"
                       /\ Cardinality({k \in 2..Len(files[f]) :
                              yielded[files[f][k].src].topic = t})
                          = Cardinality(WrittenOf(t))
                       /\ Len(files[f]) - 1 = Cardinality(WrittenTo(f))

\* the job is over; two records of /a went into a new table, which is a
\* header and two data lines, and one record went into the table an earlier
\* run left, which grew by one data line
C1_Witness ==
    /\ pc = "done"
    /\ initial[CsvPath(<<"/", "a">>)] = <<>>
    /\ Cardinality(WrittenOf(<<"/", "a">>)) = 2
    /\ Len(files[CsvPath(<<"/", "a">>)]) = 3
    /\ initial[CsvPath(<<"/", "a", "/", "b">>)] = PriorTable
    /\ Len(files[CsvPath(<<"/", "a", "/", "b">>)]) = 3
    /\ files[CsvPath(<<"/", "a", "/", "b">>)][3].kind = "data"

\* the value record i carries for a column of a header
HasColumn(i, col) ==
    col = TimestampKey \/ HasKey(extract_message_attributes(yielded[i].msg, <<>>), col)
ValueAt(i, col) ==
    IF col = TimestampKey THEN yielded[i].ts
    ELSE DictGet(extract_message_attributes(yielded[i].msg, <<>>), col)

\* C2: in a table this job created, the first line is the header made of
\* Timestamp and the flattened keys of the first record that wrote to the
\* table, and every data line has one cell per header column, the k-th cell
\* being its record's value for the header's k-th column.
C2_RowsFollowHeader ==
    \A f \in CsvFiles :
        (initial[f] = <<>> /\ files[f] # <<>>) =>
            LET header == files[f][1]
            IN  /\ header.kind = "header"
                /\ header.cells = Fieldnames(yielded[header.src].msg)
                /\ \A k \in 2..Len(files[f]) :
                       LET line == files[f][k]
                       IN  /\ line.kind = "data"
                           /\ line.src >= header.src
                           /\ Len(line.cells) = Len(header.cells)
                           /\ \A c \in 1..Len(header.cells) :
                                  /\ HasColumn(line.src, header.cells[c])
                                  /\ line.cells[c] = ValueAt(line.src, header.cells[c])

\* C3: a record whose loop body fails leaves no data line and exactly one
\* printed error, which names its topic; every record whose body does not
\* fail has exactly one data line, in its topic's table; and unless the
\* reader itself fails, convert_to_csv ends only when every record of the
\* bag has been through the loop body.
C3_RecordFaultIsolation ==
    /\ \A i \in 1..Len(outcome) :
           /\ outcome[i] = "skipped" =>
                  /\ RowsOf(i) = {}
                  /\ Cardinality(ErrorsOf(i)) = 1
                  /\ \A k \in ErrorsOf(i) : log[k].topic = yielded[i].topic
           /\ outcome[i] = "written" =>
                  /\ Cardinality(RowsOf(i)) = 1
                  /\ \A r \in RowsOf(i) : r[1] = CsvPath(yielded[i].topic)
                  /\ ErrorsOf(i) = {}
    /\ (pc \in {"finish", "done"} /\ genState # "failed") =>
           /\ Len(outcome) = Len(bag)
           /\ \A i \in 1..Len(bag) : yielded[i].topic = bag[i].topic /\ yielded[i].msg = bag[i].msg

\* the job is over; of three records of one topic the second failed: two
\* data lines, one printed error
C3_Witness ==
    /\ pc = "done"
    /\ genState = "exhausted"
    /\ outcome = <<"written", "skipped", "written">>
    /\ \A i \in 1..3 : yielded[i].topic = <<"/", "a">>
    /\ Cardinality(RowsOf(1) \cup RowsOf(2) \cup RowsOf(3)) = 2
    /\ Cardinality({k \in 1..Len(log) : log[k].what = "record_error"}) = 1

\* C4: for every exclusion set, no yielded record has a topic of the set,
\* and once the bag is exhausted the yielded records are the records of the
\* other topics, in stored order.
C4_ExcludedTopicsFiltered ==
    \A E \in SUBSET Topics :
        /\ \A i \in 1..Len(yielded) : yielded[i].topic \notin E
        /\ genState = "exhausted" =>
               [i \in 1..Len(yielded) |-> Record(yielded[i].topic, yielded[i].msg)]
               = SelectSeq(bag, LAMBDA r : r.topic \notin E)

\* C6: once the record sequence has ended, by exhaustion or by the handled
\* ROSBagException, a bag that was opened is closed.
C6_ContainerReleased ==
    genState \in {"exhausted", "failed"} => bagState # "open"

\* C10: two records of different topics never go to the same csv file, so
\* the data lines a job writes to one file are all of one topic.
C10_OneTablePerTopic ==
    /\ \A i, j \in 1..Len(yielded) :
           yielded[i].topic # yielded[j].topic
               => CsvPath(yielded[i].topic) # CsvPath(yielded[j].topic)
    /\ \A f \in CsvFiles : \A k, l \in NewLineIdx(f) :
           (files[f][k].kind = "data" /\ files[f][l].kind = "data")
               => yielded[files[f][k].src].topic = yielded[files[f][l].src].topic

----------------------------------------------------------------------------
(* Properties of the pool *)

\* floor(0.8 * c), as the largest k with 10 k <= 8 c
FloorOfEightTenths(c) == CHOOSE k \in 0..c : 10 * k <= 8 * c /\ 10 * (k + 1) > 8 * c

\* C5: no exception leaves a job: no job ends by raising, none is left out
\* because another raised, a failed job has printed its error with its file,
\* and nothing a job does makes process_bag_files fail.
C5_JobFaultIsolation ==
    /\ \A j \in Jobs : job[j] \notin {"raised", "skipped"}
    /\ \A j \in Jobs : job[j] = "caught" => [what |-> "job_error", file |-> j] \in plog
    /\ mainPc = "crashed" => target < 1

\* C7: the pool is asked for max(1, floor(0.8 * c)) processes.
C7_PoolSize ==
    mainPc \notin {"idle", "start"} =>
        target = (IF FloorOfEightTenths(cpu) > 1 THEN FloorOfEightTenths(cpu) ELSE 1)

\* C8: when 'Done converting' has been printed, no job is running, and
\* every job handed to the pool has ended.
C8_CompletionBarrier ==
    ([what |-> "done_converting", file |-> 0] \in plog \/ mainPc = "reported") =>
        \A j \in Jobs : job[j] # "running" /\ Ended(j)

\* 'Done converting' is printed after three or more jobs ran on two or more
\* workers, one of them ending in its except OSError clause
C8_Witness ==
    /\ mainPc = "reported"
    /\ [what |-> "done_converting", file |-> 0] \in plog
    /\ nfiles >= 3
    /\ target >= 2
    /\ \E j \in Jobs : job[j] = "caught"
    /\ \E j \in Jobs : job[j] = "done"

====
